---- MODULE Spec2Model ----
(***************************************************************************)
(* State-machine model of lib/argon2.js: the lazily loaded argon2 engine   *)
(* (global.Module), the hash() entry point argon2Hash with its fallback,   *)
(* deferred (10 ms re-check), ready and first-load branches, and calcHash  *)
(* with its buffer allocation and release.                                 *)
(*                                                                         *)
(* Every hash() call is one caller c.  JavaScript is run-to-completion:    *)
(* each action is one task (a timer, an XHR or script event), one run of   *)
(* hash() inside the application's code, or one promise job.  The promise  *)
(* jobs of the fallback chain wait in the queue jobs; no task starts       *)
(* before the queue is empty, but the application can call hash() again    *)
(* in front of any job.  calcHash is synchronous; it is modelled in phases *)
(* under the lock cpu, which nothing can interleave with.  The host is a   *)
(* document or a worker, with or without WebAssembly.                      *)
(*                                                                         *)
(* The fallback script (the product of build-fallback.sh) is an emscripten *)
(* runtime built without MODULARIZE: it adopts an existing global Module   *)
(* and, when it runs, may call the Module.postRun it finds installed.      *)
(***************************************************************************)
EXTENDS Integers, FiniteSets, Sequences, TLC

\* ------------------------------------------------------------------ bounds
NumCallers == 2
MaxPolls == 1

Callers == 1..NumCallers

\* ------------------------------------------------------- values of the code
\* no caller: Module.postRun not installed / no calcHash running
NoCaller == 0
\* `var res` left unassigned because Module._argon2_hash threw
Undefined == -1
\* the engine behaviour "Module._argon2_hash throws"
EngineThrows == -1
\* how the engine answers a call: it throws, returns 0, or returns the
\* non-zero status 1
EngineOutcomes == {EngineThrows, 0, 1}

\* the four buffers calcHash allocates, in the order it frees them
FreeOrder == <<"pwd", "salt", "hash", "encoded">>
Buffers == {FreeOrder[i] : i \in 1..Len(FreeOrder)}

\* params.mem, the memory cost in KiB, as read at line 121: left out
\* (line 51 documents it as optional), the smallest cost, the default of line
\* 170, the largest whose working set plus 256 pages fits under the platform
\* ceiling (32510 pages and 1 KiB), and the first that does not
MemRequests == {Undefined, 8, 1024, 2080641, 2080705}

\* params of one hash() call: the two primary-backend locators (present or
\* absent) and how the engine answers this call's _argon2_hash
ParamSet ==
    [wasmFileUrl : BOOLEAN, argon2FileUrl : BOOLEAN, eng : EngineOutcomes]

VARIABLES
    WebAssembly,                \* global.WebAssembly is defined in this host
    importScripts,              \* the host is a worker: importScripts is a function
    Module,                     \* global.Module
    globalModuleIsFullyLoaded,  \* FALSE models the initial null
    loadArgon2WrapperPromise,   \* "unset" | "pending" | "resolved" | "rejected"
    xhr,                        \* "unsent" | "sent" | "loaded" | "error"
    xhrOwner,                   \* the call whose closure holds xhr.onload/onerror
    glue,                       \* argon2FileUrl script: "none" | "loading" | "executed" | "failed"
    postRunFired,               \* an engine runtime has called Module.postRun
    xhrSends,                   \* number of xhr.send calls
    glueLoads,                  \* number of loadScript(argon2FileUrl) calls
    asmLoads,                   \* number of loadScript(asmFileUrl) calls
    pc,                         \* where each hash() call stands
    params,                     \* the params the closures of each call still read
    backends,                   \* history: the backend branches taken so far
    polls,                      \* how often the call was deferred by 10 ms
    promise,                    \* the promise hash() returned
    value,                      \* what it settled with
    jobs,                       \* the queued promise jobs of the fallback chain
    cpu,                        \* the call whose calcHash is running
    calc,                       \* calcHash's locals
    heap,                       \* outstanding allocations <<call, buffer>>
    freeCount,                  \* per call and buffer: successful _free calls
    invocations,                \* per call: Module._argon2_hash invocations
    computeFailed,              \* history: some calcHash on a ready engine threw
    issuedAfter,                \* history: the failure that preceded the call, if any
    selected                    \* history: the backend the argon2Hash run of the
                                \* latest step chose, the locators it tested and
                                \* the WebAssembly.Memory it created

loaderVars ==
    <<Module, globalModuleIsFullyLoaded, loadArgon2WrapperPromise, xhr, xhrOwner,
      glue, postRunFired, xhrSends, glueLoads>>
callVars == <<pc, params, polls, promise, value>>
calcVars == <<cpu, calc, heap, freeCount, invocations>>
histVars == <<backends, computeFailed, issuedAfter>>
vars ==
    <<WebAssembly, importScripts, asmLoads, loaderVars, callVars, jobs, calcVars,
      histVars, selected>>

\* ---------------------------------------------------------------- values
NoValue == [type |-> "none", message |-> "undefined", code |-> Undefined]
NoParams == [wasmFileUrl |-> FALSE, argon2FileUrl |-> FALSE, eng |-> 0]
CalcIdle == [phase |-> "idle", ctx |-> "none", res |-> Undefined, err |-> "undefined",
             raised |-> FALSE, result |-> NoValue]
ModuleUndefined ==
    [defined |-> FALSE, wasmJSMethod |-> "undefined", wasmBinary |-> FALSE,
     postRun |-> NoCaller]

\* no WebAssembly.Memory was created
NoMemory == [mem |-> 0, initial |-> 0, maximum |-> 0]

\* no argon2Hash run in the latest step
NoSelection ==
    [wasmFileUrl |-> FALSE, argon2FileUrl |-> FALSE, backend |-> "none",
     memory |-> NoMemory]

\* lines 70-84: an argon2Hash run tested the locators of p and took backend
Selection(p, backend) ==
    [wasmFileUrl |-> p.wasmFileUrl, argon2FileUrl |-> p.argon2FileUrl,
     backend |-> backend, memory |-> NoMemory]

\* JavaScript truthiness of calcHash's err: undefined, '' and 0 are falsy
Truthy(err) == err \in {"exception", "message"}

\* the rejection reasons built by string concatenation
RejectString(text) == [type |-> "string", message |-> text, code |-> Undefined]
\* new Error("Error loading argon2-asm.min.js: " + error): no code field
AsmError == [type |-> "Error", message |-> "Error loading argon2-asm.min.js: ",
             code |-> Undefined]

\* an exception raised by the host or the engine runtime
HostError == [type |-> "Error", message |-> "host", code |-> Undefined]
\* line 122: what new WebAssembly.Memory throws: a TypeError for
\* { initial: NaN, ... }, a RangeError when the host cannot reserve the pages
MemoryError(kind) == [type |-> kind, message |-> "WebAssembly.Memory()",
                      code |-> Undefined]

\* lines 73-79: a queued reaction of the fallback chain
\* loadScript(asmFileUrl).then(calcHash).catch(...) of call c: the
\* then-reaction on loadScript's promise or the catch-reaction on the promise
\* of then, with the state and value of the promise it reacts to
Job(c, reaction, state, argument) ==
    [caller |-> c, reaction |-> reaction, state |-> state, argument |-> argument]

\* resolve/reject of a promise that may already be settled: first one wins
Settle(c, how, v) ==
    /\ promise' = [promise EXCEPT ![c] = IF @ = "pending" THEN how ELSE @]
    /\ value' = [value EXCEPT ![c] = IF promise[c] = "pending" THEN v ELSE @]

\* lines 77-79 with a catch handler that passes the caught error on
FallbackRejection_Rethrows(error) == error

\* lines 77-79: whatever the fallback chain caught, loadScript's rejection
\* or what calcHash threw, is replaced by a new Error
FallbackRejection(error) == AsmError

\* every pending promise among cs settles
SettleAll(cs, how, v) ==
    /\ promise' = [c \in Callers |->
            IF c \in cs /\ promise[c] = "pending" THEN how ELSE promise[c]]
    /\ value' = [c \in Callers |->
            IF c \in cs /\ promise[c] = "pending" THEN v ELSE value[c]]

\* the params a pending call still reads: the fallback branch (lines 73-79)
\* never reads the primary-backend locators again
Held(p) ==
    IF ~WebAssembly \/ ~p.wasmFileUrl \/ ~p.argon2FileUrl
    THEN [p EXCEPT !.wasmFileUrl = FALSE, !.argon2FileUrl = FALSE]
    ELSE p

\* the params of a call are kept while the call is pending
KeepParams(finished, held) ==
    [c \in Callers |-> IF c \in finished THEN NoParams ELSE held[c]]

\* ---------------------------------------------------------------- Init
Init ==
    /\ WebAssembly \in BOOLEAN
    /\ importScripts \in BOOLEAN
    /\ Module = ModuleUndefined
    /\ globalModuleIsFullyLoaded = FALSE
    /\ loadArgon2WrapperPromise = "unset"
    /\ xhr = "unsent"
    /\ xhrOwner = NoCaller
    /\ glue = "none"
    /\ postRunFired = FALSE
    /\ xhrSends = 0
    /\ glueLoads = 0
    /\ asmLoads = 0
    /\ pc = [c \in Callers |-> "idle"]
    /\ params = [c \in Callers |-> NoParams]
    /\ polls = [c \in Callers |-> 0]
    /\ promise = [c \in Callers |-> "none"]
    /\ value = [c \in Callers |-> NoValue]
    /\ jobs = <<>>
    /\ cpu = NoCaller
    /\ calc = CalcIdle
    /\ heap = {}
    /\ freeCount = [c \in Callers |-> [b \in Buffers |-> 0]]
    /\ invocations = [c \in Callers |-> 0]
    /\ backends = {}
    /\ computeFailed = FALSE
    /\ issuedAfter = [c \in Callers |-> "none"]
    /\ selected = NoSelection

\* ------------------------------------------------------------ argon2Hash
\* line 72 with the test of argon2FileUrl left out
UseFallback_IgnoresGlueUrl(p) == ~WebAssembly \/ ~p.wasmFileUrl

\* line 72: the fallback test
UseFallback(p) == ~WebAssembly \/ ~p.wasmFileUrl \/ ~p.argon2FileUrl

\* lines 34 and 162-164: the wasm fetch or the glue-script load has failed
LoadFailed == xhr = "error" \/ glue = "failed"

\* line 92 without the deferral: a call arriving during a load starts its own
MustDefer_Never == FALSE

\* line 92: a backend object exists but is not flagged fully loaded
MustDefer == Module.defined /\ ~globalModuleIsFullyLoaded

\* line 101 comparing wasmJSMethod with a name the backend object never has
IsReady_WrongMethod ==
    /\ Module.defined
    /\ Module.wasmJSMethod = "asmjs"
    /\ globalModuleIsFullyLoaded

\* line 101: the engine is loaded and flagged
IsReady ==
    /\ Module.defined
    /\ Module.wasmJSMethod = "native-wasm"
    /\ globalModuleIsFullyLoaded

\* lines 127-135: the backend object the first primary call creates
NewModule ==
    [defined |-> TRUE, wasmJSMethod |-> "native-wasm", wasmBinary |-> FALSE,
     postRun |-> NoCaller]

\* ------------------------------------------------------------ loadScript
\* lines 21-38, loadScript(params.argon2FileUrl), memoized (lines 102-104 and
\* 155-157).  In a worker (lines 23-29) importScripts runs the script at once
\* and the promise is settled before loadScript returns: resolved, or
\* rejected when importScripts throws.  In a document (lines 30-35) a script
\* element is appended and its load or error event settles the promise.
loadScriptGlue ==
    IF loadArgon2WrapperPromise # "unset"
    THEN UNCHANGED <<loadArgon2WrapperPromise, glue, glueLoads>>
    ELSE /\ glueLoads' = glueLoads + 1
         /\ IF importScripts
               THEN \E imported \in BOOLEAN :
                      /\ glue' = IF imported THEN "executed" ELSE "failed"
                      /\ loadArgon2WrapperPromise' =
                            IF imported THEN "resolved" ELSE "rejected"
               ELSE /\ glue' = "loading"
                    /\ loadArgon2WrapperPromise' = "pending"

\* ------------------------------------------------------- memory sizing
\* lines 115-120 (KB is 1024 * 1024 in the source)
KB == 1024 * 1024
MB == 1024 * KB
WASM_PAGE_SIZE == 64 * 1024

\* line 120: (2 * GB - 64 * KB) / 1024 / WASM_PAGE_SIZE with GB = 1024 * MB;
\* both terms are exact multiples of 1024 * WASM_PAGE_SIZE, so the division
\* is taken term by term to stay inside 32-bit integers
totalMemory == 2 * (MB \div WASM_PAGE_SIZE) - ((64 * KB) \div 1024) \div WASM_PAGE_SIZE

Max(a, b) == IF a >= b THEN a ELSE b
Min(a, b) == IF a <= b THEN a ELSE b
\* Math.ceil(n / d) for natural n and positive d
Ceil(n, d) == (n \div d) + (IF n % d = 0 THEN 0 ELSE 1)

\* line 121: the pages the requested memory cost needs
WorkingSet(mem) == Ceil(mem * 1024, WASM_PAGE_SIZE)

\* line 121 without the Math.min clamp
initialMemory_Unclamped(mem) == Max(WorkingSet(mem), 256) + 256

\* line 121
initialMemory(mem) == Min(Max(WorkingSet(mem), 256) + 256, totalMemory)

\* lines 122-125: new WebAssembly.Memory({ initial, maximum }), in 64 KiB
\* pages, with the params.mem it was sized for
WasmMemory(mem) ==
    [mem |-> mem, initial |-> initialMemory(mem), maximum |-> totalMemory]

\* lines 121-125: what the constructor of WebAssembly.Memory does inside the
\* promise executor.  Without params.mem the size is NaN and it throws a
\* TypeError; for a numeric size it creates the memory, or throws a
\* RangeError when the host cannot reserve the initial pages
MemoryOutcomes(mem) ==
    IF mem = Undefined THEN {"TypeError"} ELSE {"created", "RangeError"}

\* lines 137-165: creating, opening and sending the request inside the promise
\* executor: the request is sent, or new XMLHttpRequest() (line 137, a host
\* without XMLHttpRequest), xhr.open (line 138, a locator the host refuses)
\* or xhr.send (line 165) throws
XhrOutcomes == {"sent", "throws"}

\* the promise of call c is (still) pending
Pending(c) ==
    /\ promise' = [promise EXCEPT ![c] = "pending"]
    /\ UNCHANGED value

\* the promise of call c, not settled before, is rejected with v
Reject(c, v) ==
    /\ promise' = [promise EXCEPT ![c] = "rejected"]
    /\ value' = [value EXCEPT ![c] = v]

\* calcHash(params) starts for call c, called from ctx
StartCalc(c, ctx) ==
    /\ cpu' = c
    /\ calc' = [CalcIdle EXCEPT !.phase = "alloc", !.ctx = ctx]
    /\ pc' = [pc EXCEPT ![c] = "computing"]

\* build-fallback.sh, lines 6-13: the fallback script is linked with WASM=0
\* and without MODULARIZE, so its runtime lives on the global Module: it
\* defines the object when there is none and adopts the one it finds, with
\* the fields argon2.js has assigned (wasmJSMethod, wasmBinary, postRun)
AsmModule ==
    IF Module.defined THEN Module
    ELSE [defined |-> TRUE, wasmJSMethod |-> "undefined", wasmBinary |-> FALSE,
          postRun |-> NoCaller]

\* build-fallback.sh, lines 6-13: the runtime runs when the script is executed
\* (--memory-init-file 0: nothing is awaited) and its run() calls the
\* callback it finds at Module.postRun, once per callback.  The script
\* itself is a build product; both a runtime that calls an installed
\* postRun and one that does not are covered
AsmPostRunCalls ==
    IF Module.postRun # NoCaller /\ ~postRunFired THEN BOOLEAN ELSE {FALSE}

\* lines 146-148 called by the runtime of the fallback script that call c is
\* loading: the flag is set and calcHash runs with the params of the call
\* that installed postRun, inside the execution of the script; c waits at 'at'
AsmPostRun(c, at) ==
    /\ postRunFired' = TRUE
    /\ globalModuleIsFullyLoaded' = TRUE
    /\ cpu' = Module.postRun
    /\ calc' = [CalcIdle EXCEPT !.phase = "alloc", !.ctx = "postRun"]
    /\ pc' = [pc EXCEPT ![c] = at, ![Module.postRun] = "computing"]

\* lines 114-165 with the glue script requested next to the wasm binary
\* instead of from xhr.onload
FirstLoad_GlueInParallel(c, p) ==
    \E mem \in MemRequests : \E made \in MemoryOutcomes(mem) :
        IF made # "created"
        THEN /\ selected' = Selection(p, "primary")
             /\ Reject(c, MemoryError(made))
             /\ pc' = [pc EXCEPT ![c] = "done"]
             /\ params' = KeepParams({c}, params)
             /\ UNCHANGED loaderVars
        ELSE /\ selected' = [Selection(p, "primary") EXCEPT !.memory = WasmMemory(mem)]
             /\ Module' = NewModule
             /\ \E request \in XhrOutcomes :
                  IF request = "throws"
                  THEN /\ Reject(c, HostError)
                       /\ pc' = [pc EXCEPT ![c] = "done"]
                       /\ params' = KeepParams({c}, params)
                       /\ UNCHANGED <<xhr, xhrOwner, xhrSends,
                                      loadArgon2WrapperPromise, glue, glueLoads>>
                  ELSE /\ xhr' = "sent"
                       /\ xhrOwner' = c
                       /\ xhrSends' = xhrSends + 1
                       /\ pc' = [pc EXCEPT ![c] = "fetching"]
                       /\ Pending(c)
                       /\ params' = [params EXCEPT ![c] = Held(p)]
                       /\ loadScriptGlue
             /\ UNCHANGED <<globalModuleIsFullyLoaded, postRunFired>>

\* lines 114-165: size and create the memory, create the backend object and
\* send the request for the wasm binary.  When the Memory constructor throws,
\* the executor's exception rejects the promise and nothing was created; when
\* the request throws, the executor's exception rejects the promise after
\* global.Module was assigned (line 127), and no request is under way
FirstLoad(c, p) ==
    \E mem \in MemRequests : \E made \in MemoryOutcomes(mem) :
        IF made # "created"
        THEN /\ selected' = Selection(p, "primary")
             /\ Reject(c, MemoryError(made))
             /\ pc' = [pc EXCEPT ![c] = "done"]
             /\ params' = KeepParams({c}, params)
             /\ UNCHANGED loaderVars
        ELSE /\ selected' = [Selection(p, "primary") EXCEPT !.memory = WasmMemory(mem)]
             /\ Module' = NewModule
             /\ \E request \in XhrOutcomes :
                  IF request = "throws"
                  THEN /\ Reject(c, HostError)
                       /\ pc' = [pc EXCEPT ![c] = "done"]
                       /\ params' = KeepParams({c}, params)
                       /\ UNCHANGED <<xhr, xhrOwner, xhrSends>>
                  ELSE /\ xhr' = "sent"
                       /\ xhrOwner' = c
                       /\ xhrSends' = xhrSends + 1
                       /\ pc' = [pc EXCEPT ![c] = "fetching"]
                       /\ Pending(c)
                       /\ params' = [params EXCEPT ![c] = Held(p)]
             /\ UNCHANGED <<globalModuleIsFullyLoaded, loadArgon2WrapperPromise,
                            glue, postRunFired, glueLoads>>

\* the body of argon2Hash(params) for call c, with the settlements of the
\* primary branches that nothing can come before: run by the call itself and
\* again by every 10 ms re-check (line 93), whose promise chain settles c's
\* promise
argon2Hash(c, p) ==
    IF UseFallback(p) THEN
        \* lines 73-79: loadScript(params.asmFileUrl) on every call.  In a
        \* worker importScripts has run the script (or thrown) when loadScript
        \* returns, so its promise is settled and the then-reaction is queued
        \* as a promise job; the job runs after hash() has returned.  When the
        \* script's runtime calls an installed postRun, calcHash runs inside
        \* importScripts and loadScript settles when it has ended (CalcEnd)
        /\ asmLoads' = asmLoads + 1
        /\ backends' = backends \cup {"fallback"}
        /\ selected' = Selection(p, "fallback")
        /\ Pending(c)
        /\ IF importScripts
              THEN \E imported \in BOOLEAN :
                     IF ~imported
                     THEN /\ params' = KeepParams({c}, params)
                          /\ pc' = [pc EXCEPT ![c] = "chained"]
                          /\ jobs' = Append(jobs, Job(c, "then", "rejected", HostError))
                          /\ UNCHANGED <<Module, globalModuleIsFullyLoaded,
                                         postRunFired, cpu, calc>>
                     ELSE /\ Module' = AsmModule
                          /\ params' = [params EXCEPT ![c] = Held(p)]
                          /\ \E called \in AsmPostRunCalls :
                               IF called
                               THEN /\ AsmPostRun(c, "importing")
                                    /\ UNCHANGED jobs
                               ELSE /\ pc' = [pc EXCEPT ![c] = "chained"]
                                    /\ jobs' = Append(jobs,
                                          Job(c, "then", "fulfilled", NoValue))
                                    /\ UNCHANGED <<globalModuleIsFullyLoaded,
                                                   postRunFired, cpu, calc>>
              ELSE /\ pc' = [pc EXCEPT ![c] = "asmLoading"]
                   /\ params' = [params EXCEPT ![c] = Held(p)]
                   /\ UNCHANGED <<Module, jobs, globalModuleIsFullyLoaded,
                                  postRunFired, cpu, calc>>
        /\ UNCHANGED <<loadArgon2WrapperPromise, xhr, xhrOwner, glue, xhrSends,
                       glueLoads, polls>>
    ELSE IF MustDefer THEN
        \* lines 92-95: setTimeout(argon2Hash(params), 10)
        /\ pc' = [pc EXCEPT ![c] = "polling"]
        /\ polls' = [polls EXCEPT ![c] = IF @ < MaxPolls THEN @ + 1 ELSE @]
        /\ backends' = backends \cup {"primary"}
        /\ selected' = Selection(p, "primary")
        /\ Pending(c)
        /\ params' = [params EXCEPT ![c] = Held(p)]
        /\ UNCHANGED <<loaderVars, asmLoads, cpu, calc, jobs>>
    ELSE IF IsReady THEN
        \* lines 101-112: the then-callback arms the 10 ms timer once the
        \* memoized promise is resolved; the catch handler rejects the call
        \* once it is rejected
        /\ loadScriptGlue
        /\ IF loadArgon2WrapperPromise' = "rejected"
              THEN /\ Reject(c, RejectString(
                              "Error loading argon2.min.js (WASM already loaded): "))
                   /\ pc' = [pc EXCEPT ![c] = "done"]
                   /\ params' = KeepParams({c}, params)
              ELSE /\ pc' = [pc EXCEPT ![c] =
                            IF loadArgon2WrapperPromise' = "resolved"
                            THEN "timer" ELSE "readyWait"]
                   /\ Pending(c)
                   /\ params' = [params EXCEPT ![c] = Held(p)]
        /\ backends' = backends \cup {"primary"}
        /\ selected' = Selection(p, "primary")
        /\ UNCHANGED <<Module, globalModuleIsFullyLoaded, xhr, xhrOwner,
                       postRunFired, xhrSends, asmLoads, polls, cpu, calc, jobs>>
    ELSE
        \* lines 114-165
        /\ FirstLoad(c, p)
        /\ backends' = backends \cup {"primary"}
        /\ UNCHANGED <<asmLoads, polls, cpu, calc, jobs>>

\* history: the failure a new call comes after
FailureSoFar ==
    CASE computeFailed -> "computeFailure"
      [] LoadFailed -> "loadFailure"
      [] OTHER -> "none"

\* a task (timer, XHR or script event) can start: nothing is running and
\* no promise job is queued
TaskMayStart == cpu = NoCaller /\ jobs = <<>>

\* the application invokes argon2.hash(p): in a task of its own, or again in
\* the task or promise reaction that is running, in front of the queued jobs
Call(c) ==
    /\ cpu = NoCaller
    /\ pc[c] = "idle"
    /\ \E p \in ParamSet : argon2Hash(c, p)
    /\ issuedAfter' = [issuedAfter EXCEPT ![c] = FailureSoFar]
    /\ UNCHANGED <<WebAssembly, importScripts, heap, freeCount, invocations,
                   computeFailed>>

\* line 93: the 10 ms timer fires and argon2Hash(params) runs again; its
\* promise is chained to the call's resolve and reject
PollFire(c) ==
    /\ TaskMayStart
    /\ pc[c] = "polling"
    /\ argon2Hash(c, params[c])
    /\ UNCHANGED <<WebAssembly, importScripts, heap, freeCount, invocations,
                   computeFailed, issuedAfter>>


\* -------------------------------------------------- the first call's load
\* lines 140-161: xhr.onload; in a worker loadScript has run the glue script
\* (or importScripts has thrown) when it returns, and the catch handler of
\* line 158 runs before any other task.  The postRun installed at line 142
\* keeps the params of the loading call in its closure
XhrOnload ==
    /\ TaskMayStart
    /\ xhr = "sent"
    /\ xhr' = "loaded"
    /\ Module' = [Module EXCEPT !.wasmBinary = TRUE, !.postRun = xhrOwner]
    /\ loadScriptGlue
    /\ IF loadArgon2WrapperPromise' = "rejected"
          THEN /\ Settle(xhrOwner, "rejected",
                     RejectString("Error loading argon2.min.js (WASM already loaded): "))
               /\ pc' = [pc EXCEPT ![xhrOwner] = "done"]
               /\ UNCHANGED params
          ELSE /\ pc' = [pc EXCEPT ![xhrOwner] = "linking"]
               /\ UNCHANGED <<params, promise, value>>
    /\ selected' = NoSelection
    /\ UNCHANGED <<WebAssembly, importScripts, jobs, asmLoads, globalModuleIsFullyLoaded, xhrOwner,
                   postRunFired, xhrSends, polls, calcVars, histVars>>

\* lines 162-164: xhr.onerror rejects the promise of the call that sent it
XhrOnerror ==
    /\ TaskMayStart
    /\ xhr = "sent"
    /\ xhr' = "error"
    /\ Settle(xhrOwner, "rejected", RejectString("Error loading wasm "))
    /\ pc' = [pc EXCEPT ![xhrOwner] = "done"]
    /\ params' = KeepParams({xhrOwner}, params)
    /\ selected' = NoSelection
    /\ UNCHANGED <<WebAssembly, importScripts, jobs, asmLoads, Module, globalModuleIsFullyLoaded,
                   loadArgon2WrapperPromise, xhrOwner, glue, postRunFired, xhrSends,
                   glueLoads, polls, calcVars, histVars>>

\* the calls whose rejection handler hangs on the pending
\* loadArgon2WrapperPromise: the loading call, whose xhr.onload attached the
\* handler of line 158 when it installed postRun, whatever that call has done
\* since (its postRun may have run meanwhile), and the calls of the ready
\* branch (line 108)
GlueCatchers ==
    {c \in Callers :
        /\ loadArgon2WrapperPromise = "pending"
        /\ c = Module.postRun \/ pc[c] = "readyWait"}

\* lines 27-28 and 34: the glue script fails to load; the memoized promise
\* rejects and every attached catch handler rejects its call (the closure of
\* an installed postRun that was not called yet keeps its call's params)
GlueFail ==
    /\ TaskMayStart
    /\ glue = "loading"
    /\ glue' = "failed"
    /\ loadArgon2WrapperPromise' = "rejected"
    /\ promise' = [c \in Callers |->
            IF c \in GlueCatchers /\ promise[c] = "pending" THEN "rejected"
            ELSE promise[c]]
    /\ value' = [c \in Callers |->
            IF c \in GlueCatchers /\ promise[c] = "pending"
            THEN RejectString("Error loading argon2.min.js (WASM already loaded): ")
            ELSE value[c]]
    /\ pc' = [c \in Callers |->
            IF c \in GlueCatchers /\ pc[c] \in {"linking", "readyWait"} THEN "done"
            ELSE pc[c]]
    /\ params' = KeepParams({c \in GlueCatchers : c # Module.postRun \/ postRunFired},
                             params)
    /\ selected' = NoSelection
    /\ UNCHANGED <<WebAssembly, importScripts, jobs, asmLoads, Module, globalModuleIsFullyLoaded, xhr,
                   xhrOwner, postRunFired, xhrSends, glueLoads, polls,
                   calcVars, histVars>>

\* lines 25 and 35: the glue script is fetched and executed
GlueExecute ==
    /\ TaskMayStart
    /\ glue = "loading"
    /\ glue' = "executed"
    /\ selected' = NoSelection
    /\ UNCHANGED <<WebAssembly, importScripts, jobs, asmLoads, Module, globalModuleIsFullyLoaded,
                   loadArgon2WrapperPromise, xhr, xhrOwner, postRunFired, xhrSends,
                   glueLoads, callVars, calcVars, histVars>>

\* lines 26 and 33: the script's load event resolves the memoized promise; the
\* then-callbacks of the ready branch (lines 105-107) each arm a 10 ms timer
GlueOnload ==
    /\ TaskMayStart
    /\ glue = "executed"
    /\ loadArgon2WrapperPromise = "pending"
    /\ loadArgon2WrapperPromise' = "resolved"
    /\ pc' = [c \in Callers |-> IF pc[c] = "readyWait" THEN "timer" ELSE pc[c]]
    /\ selected' = NoSelection
    /\ UNCHANGED <<WebAssembly, importScripts, jobs, asmLoads, Module, globalModuleIsFullyLoaded, xhr,
                   xhrOwner, glue, postRunFired, xhrSends, glueLoads, params,
                   polls, promise, value, calcVars, histVars>>

\* lines 142-149: the executed glue code calls Module.postRun once
PostRun ==
    /\ TaskMayStart
    /\ glue = "executed"
    /\ ~postRunFired
    /\ Module.postRun # NoCaller
    /\ postRunFired' = TRUE
    /\ globalModuleIsFullyLoaded' = TRUE
    /\ StartCalc(Module.postRun, "postRun")
    /\ selected' = NoSelection
    /\ UNCHANGED <<WebAssembly, importScripts, jobs, asmLoads, Module, loadArgon2WrapperPromise, xhr,
                   xhrOwner, glue, xhrSends, glueLoads, params, polls, promise,
                   value, heap, freeCount, invocations, histVars>>

\* line 106: the ready branch's 10 ms timer fires
TimerFire(c) ==
    /\ TaskMayStart
    /\ pc[c] = "timer"
    /\ StartCalc(c, "timer")
    /\ selected' = NoSelection
    /\ UNCHANGED <<WebAssembly, importScripts, jobs, asmLoads, loaderVars, params, polls, promise,
                   value, heap, freeCount, invocations, histVars>>

\* ------------------------------------------------------------- fallback
\* lines 30-35: the script element of the fallback script is fetched and
\* executed; its runtime may call an installed postRun, whose calcHash then
\* runs inside the execution of the script
AsmExecute(c) ==
    /\ TaskMayStart
    /\ pc[c] = "asmLoading"
    /\ Module' = AsmModule
    /\ \E called \in AsmPostRunCalls :
         IF called
         THEN AsmPostRun(c, "asmExecuted")
         ELSE /\ pc' = [pc EXCEPT ![c] = "asmExecuted"]
              /\ UNCHANGED <<globalModuleIsFullyLoaded, postRunFired, cpu, calc>>
    /\ selected' = NoSelection
    /\ UNCHANGED <<WebAssembly, importScripts, jobs, asmLoads,
                   loadArgon2WrapperPromise, xhr, xhrOwner, glue, xhrSends,
                   glueLoads, params, polls, promise, value, heap, freeCount,
                   invocations, histVars>>

\* line 33: the fallback script's load event, fired after the script was
\* executed, resolves loadScript's promise, which queues the then-reaction
\* of line 74
AsmLoaded(c) ==
    /\ TaskMayStart
    /\ pc[c] = "asmExecuted"
    /\ pc' = [pc EXCEPT ![c] = "chained"]
    /\ jobs' = Append(jobs, Job(c, "then", "fulfilled", NoValue))
    /\ selected' = NoSelection
    /\ UNCHANGED <<WebAssembly, importScripts, asmLoads, loaderVars, params,
                   polls, promise, value, calcVars, histVars>>

\* line 34: the fallback script's error event rejects loadScript's promise
AsmFailed(c) ==
    /\ TaskMayStart
    /\ pc[c] = "asmLoading"
    /\ pc' = [pc EXCEPT ![c] = "chained"]
    /\ jobs' = Append(jobs,
            Job(c, "then", "rejected", RejectString("Error loading script: ")))
    /\ params' = KeepParams({c}, params)
    /\ selected' = NoSelection
    /\ UNCHANGED <<WebAssembly, importScripts, asmLoads, loaderVars, polls,
                   promise, value, calcVars, histVars>>

\* lines 73-76, the then-reaction on loadScript's promise runs as a promise
\* job: fulfilled, it calls calcHash(params); rejected, it has no handler
\* and passes the rejection on to the promise of then, which queues the
\* catch-reaction
ThenJob ==
    /\ cpu = NoCaller
    /\ jobs # <<>>
    /\ Head(jobs).reaction = "then"
    /\ IF Head(jobs).state = "fulfilled"
          THEN /\ StartCalc(Head(jobs).caller, "fallback")
               /\ jobs' = Tail(jobs)
          ELSE /\ jobs' = Append(Tail(jobs), [Head(jobs) EXCEPT !.reaction = "catch"])
               /\ UNCHANGED <<pc, cpu, calc>>
    /\ selected' = NoSelection
    /\ UNCHANGED <<WebAssembly, importScripts, asmLoads, loaderVars, params, polls,
                   promise, value, heap, freeCount, invocations, histVars>>

\* lines 77-79, the catch-reaction on the promise of then runs as a promise
\* job and settles the promise hash() returned: fulfilled, the value is
\* passed through; rejected, the handler throws the new Error
CatchJob ==
    /\ cpu = NoCaller
    /\ jobs # <<>>
    /\ Head(jobs).reaction = "catch"
    /\ IF Head(jobs).state = "fulfilled"
          THEN Settle(Head(jobs).caller, "resolved", Head(jobs).argument)
          ELSE Settle(Head(jobs).caller, "rejected",
                      FallbackRejection(Head(jobs).argument))
    /\ pc' = [pc EXCEPT ![Head(jobs).caller] = "done"]
    /\ jobs' = Tail(jobs)
    /\ selected' = NoSelection
    /\ UNCHANGED <<WebAssembly, importScripts, asmLoads, loaderVars, params, polls,
                   calcVars, histVars>>

\* -------------------------------------------------------------- calcHash
\* what Module._argon2_error_message / Pointer_stringify may do at line 204:
\* yield a message, yield the empty string, or throw
LookupOutcomes == {"message", "", "throws"}

\* what Module._argon2_hash may throw (line 187 keeps the value itself): an
\* exception object, or one of the falsy values 0, undefined and ''
ThrownValues == {"exception", "0", "undefined", ""}

\* lines 173-179: the four allocations, in order
AllocOrder == <<"pwd", "salt", "hash", "encoded">>

\* the buffers allocated when the failAt-th allocation throws (0: none does)
Allocated(failAt) ==
    {AllocOrder[i] : i \in {j \in 1..Len(AllocOrder) : failAt = 0 \/ j < failAt}}

\* lines 173-179: allocateArray twice and Module.allocate twice, outside any
\* try block: when one of them throws, calcHash ends with that exception
\* and the buffers allocated before it stay allocated
CalcAllocate ==
    /\ cpu # NoCaller
    /\ calc.phase = "alloc"
    /\ \E failAt \in 0..Len(AllocOrder) :
        /\ heap' = heap \cup {<<cpu, b>> : b \in Allocated(failAt)}
        /\ calc' = IF failAt = 0
                   THEN [calc EXCEPT !.phase = "invoke"]
                   ELSE [calc EXCEPT !.phase = "end", !.raised = TRUE,
                                     !.result = HostError]
    /\ selected' = NoSelection
    /\ UNCHANGED <<WebAssembly, importScripts, jobs, asmLoads, loaderVars, callVars, cpu,
                   freeCount, invocations, histVars>>

\* lines 183-189: the engine call inside try/catch
CalcInvoke ==
    /\ cpu # NoCaller
    /\ calc.phase = "invoke"
    /\ invocations' = [invocations EXCEPT ![cpu] = @ + 1]
    /\ IF params[cpu].eng = EngineThrows
          THEN \E e \in ThrownValues :
                  calc' = [calc EXCEPT !.phase = "decode", !.err = e]
          ELSE calc' = [calc EXCEPT !.phase = "decode", !.res = params[cpu].eng]
    /\ selected' = NoSelection
    /\ UNCHANGED <<WebAssembly, importScripts, jobs, asmLoads, loaderVars, callVars, cpu,
                   heap, freeCount, histVars>>

\* lines 191-200: the success object
HashResult == [type |-> "HashResult", message |-> "undefined", code |-> Undefined]

\* lines 202-208: err after the message lookup, given what the lookup did
ErrAfterLookup(err, lookup) ==
    IF Truthy(err) \/ lookup = "throws" THEN err ELSE lookup

\* line 208: { message: err, code: res }
ErrorObject(err, res) == [type |-> "object", message |-> err, code |-> res]

\* lines 190-209: decode the outcome into result.  The success block (lines
\* 191-200) is outside any try block: when reading the heap or
\* Module.Pointer_stringify throws, calcHash ends with that exception and
\* the release of lines 210-215 is skipped
CalcDecode ==
    /\ cpu # NoCaller
    /\ calc.phase = "decode"
    /\ IF calc.res = 0 /\ ~Truthy(calc.err)
          THEN \E decoded \in BOOLEAN :
                  calc' = IF decoded
                          THEN [calc EXCEPT !.phase = "free", !.result = HashResult]
                          ELSE [calc EXCEPT !.phase = "end", !.raised = TRUE,
                                            !.result = HostError]
          ELSE \E lookup \in (IF Truthy(calc.err) THEN {"throws"} ELSE LookupOutcomes) :
                  calc' = [calc EXCEPT
                              !.phase = "free",
                              !.err = ErrAfterLookup(calc.err, lookup),
                              !.result = ErrorObject(ErrAfterLookup(calc.err, lookup),
                                                     calc.res)]
    /\ selected' = NoSelection
    /\ UNCHANGED <<WebAssembly, importScripts, jobs, asmLoads, loaderVars, callVars, cpu,
                   heap, freeCount, invocations, histVars>>

\* lines 210-215: the buffers released when the failAt-th _free throws: one try
\* block holds the four calls, so the throwing call and those after it free nothing
Freed(failAt) ==
    {FreeOrder[i] : i \in {j \in 1..Len(FreeOrder) : failAt = 0 \/ j < failAt}}

\* lines 210-215 without the try block: the exception of a throwing _free
\* becomes what calcHash throws
ErrAfterFree_Escapes(err, failAt) == IF failAt # 0 THEN "exception" ELSE err

\* line 215: catch (e) { } drops the exception of a throwing _free
ErrAfterFree(err, failAt) == err

\* lines 210-215: any of the four Module._free calls may throw (0: none)
CalcFree ==
    /\ cpu # NoCaller
    /\ calc.phase = "free"
    /\ \E failAt \in 0..Len(FreeOrder) :
        /\ heap' = heap \ {<<cpu, b>> : b \in Freed(failAt)}
        /\ freeCount' = [freeCount EXCEPT ![cpu] =
                [b \in Buffers |-> IF b \in Freed(failAt) THEN @[b] + 1 ELSE @[b]]]
        /\ calc' = [calc EXCEPT !.phase = "end",
                                !.err = ErrAfterFree(calc.err, failAt)]
    /\ selected' = NoSelection
    /\ UNCHANGED <<WebAssembly, importScripts, jobs, asmLoads, loaderVars, callVars, cpu,
                   invocations, histVars>>

\* line 148 handing the loading call's result to every deferred call too
Resolvers_FanOut(c, ctx) ==
    IF ctx = "postRun" THEN {c} \cup {d \in Callers : pc[d] = "polling"} ELSE {c}

\* lines 74, 106 and 148: the calls whose resolve function receives what
\* calcHash(params) returned for call c: the resolve of c's own closure
Resolvers(c, ctx) == {c}

\* line 216: calcHash throws result exactly when err is truthy
Throws(err) == Truthy(err)

\* calcHash ends with an exception: the one of a throwing allocation or
\* decoding step, or the result object thrown at line 217
Raises == calc.raised \/ Throws(calc.err)

\* lines 23-29: the call whose importScripts(asmFileUrl) is running the
\* fallback script while that script's runtime is inside postRun
Importing == {c \in Callers : pc[c] = "importing"}

\* the end of calcHash (lines 216-220, or the exception of an allocation or
\* decoding step) and the three call sites: postRun (line 148) and the ready
\* branch's timer (line 106) pass the return value to resolve and let an
\* exception escape uncaught; on the fallback chain (line 74) the return
\* value fulfils and the exception rejects the promise of then, which queues
\* the catch-reaction.  When postRun was called from a fallback script that
\* importScripts is running (lines 23-29), importScripts returns after
\* postRun and loadScript resolves, or the escaping exception leaves
\* importScripts and loadScript rejects with it
CalcEnd ==
    /\ cpu # NoCaller
    /\ calc.phase = "end"
    /\ IF calc.ctx = "fallback"
          THEN /\ jobs' = Append(jobs,
                      Job(cpu, "catch", IF Raises THEN "rejected" ELSE "fulfilled",
                          calc.result))
               /\ pc' = [pc EXCEPT ![cpu] = "chained"]
               /\ params' = KeepParams({cpu}, params)
               /\ UNCHANGED <<promise, value>>
          ELSE /\ IF ~Raises
                     THEN SettleAll(Resolvers(cpu, calc.ctx), "resolved", calc.result)
                     ELSE UNCHANGED <<promise, value>>
               /\ pc' = [c \in Callers |->
                        IF c = cpu THEN IF calc.raised THEN "crashed" ELSE "done"
                        ELSE IF c \in Importing THEN "chained"
                        ELSE pc[c]]
               /\ jobs' = IF Importing = {} THEN jobs
                          ELSE Append(jobs,
                                 Job(CHOOSE c \in Importing : TRUE, "then",
                                     IF Raises THEN "rejected" ELSE "fulfilled",
                                     IF Raises THEN calc.result ELSE NoValue))
               /\ params' = KeepParams(
                        {cpu} \cup (IF Raises THEN Importing ELSE {}), params)
    /\ computeFailed' = (computeFailed \/ (calc.res # 0 /\ globalModuleIsFullyLoaded))
    /\ cpu' = NoCaller
    /\ calc' = CalcIdle
    /\ selected' = NoSelection
    /\ UNCHANGED <<WebAssembly, importScripts, asmLoads, loaderVars, polls, heap,
                   freeCount, invocations, backends, issuedAfter>>

calcHash == CalcAllocate \/ CalcInvoke \/ CalcDecode \/ CalcFree \/ CalcEnd

\* ------------------------------------------------------------------ Next
Next ==
    \/ \E c \in Callers : Call(c)
    \/ \E c \in Callers : PollFire(c)
    \/ \E c \in Callers : TimerFire(c)
    \/ \E c \in Callers : AsmExecute(c)
    \/ \E c \in Callers : AsmLoaded(c)
    \/ \E c \in Callers : AsmFailed(c)
    \/ ThenJob
    \/ CatchJob
    \/ XhrOnload
    \/ XhrOnerror
    \/ GlueExecute
    \/ GlueFail
    \/ GlueOnload
    \/ PostRun
    \/ CalcAllocate
    \/ CalcInvoke
    \/ CalcDecode
    \/ CalcFree
    \/ CalcEnd

Spec == Init /\ [][Next]_vars

\* ------------------------------------------------------------- fairness
\* The event loop runs every due timer and every queued promise job, an XHR and
\* a script element each end in a load or an error event, the executed glue
\* code calls postRun, and a running calcHash runs to completion.  Nothing
\* obliges a caller to call hash().
Fairness ==
    /\ WF_vars(XhrOnload \/ XhrOnerror)
    /\ WF_vars(GlueExecute \/ GlueFail)
    /\ WF_vars(GlueOnload)
    /\ WF_vars(PostRun)
    /\ WF_vars(calcHash)
    /\ WF_vars(ThenJob \/ CatchJob)
    /\ \A c \in Callers :
        /\ WF_vars(PollFire(c))
        /\ WF_vars(TimerFire(c))
        /\ WF_vars(AsmExecute(c) \/ AsmFailed(c))
        /\ WF_vars(AsmLoaded(c))

FairSpec == Spec /\ Fairness

\* ================================================================ claims

\* C1: over any interleaving of hash() calls the wasm binary is fetched
\* (xhr.send) at most once and the glue script argon2FileUrl is loaded at
\* most once.
C1_FetchAndGlueAtMostOnce == xhrSends <= 1 /\ glueLoads <= 1

\* C1 witness: two calls took the primary branch, one of them was deferred
\* while the other's load was in progress, both resolved, and one fetch and
\* one glue load happened.
C1_Witness ==
    /\ xhrSends = 1
    /\ glueLoads = 1
    /\ asmLoads = 0
    /\ \A c \in Callers : promise[c] = "resolved"
    /\ \E c \in Callers : polls[c] >= 1

\* C2 (as stated): calcHash runs only while the engine is flagged ready by
\* postRun, whatever backend the running call selected.
C2_CalcOnlyWhenReady == cpu # NoCaller => globalModuleIsFullyLoaded

\* C3 as stated: when the wasm fetch and the glue link have succeeded, every
\* pending primary call whose engine status is 0 eventually resolves.
C3_AllResolve ==
    \A c \in Callers :
        (/\ promise[c] = "pending"
         /\ ~UseFallback(params[c])
         /\ params[c].eng = 0
         /\ xhr = "loaded"
         /\ glue = "executed") ~> (promise[c] = "resolved")

\* C3, up to the exceptions calcHash lets escape: when the wasm fetch and the
\* glue link have succeeded, every pending primary call whose engine status is
\* 0 eventually resolves or has its calcHash ended by an exception of an
\* allocation or of the decoding of the result (no call polls forever).
C3_AllResolveUnlessRaised ==
    \A c \in Callers :
        (/\ promise[c] = "pending"
         /\ ~UseFallback(params[c])
         /\ params[c].eng = 0
         /\ xhr = "loaded"
         /\ glue = "executed") ~> (promise[c] = "resolved" \/ pc[c] = "crashed")

\* C3 witness: two calls issued before the engine was ready (one started the
\* load, the other was deferred at least once) have both resolved with a hash.
C3_Witness ==
    /\ xhrSends = 1
    /\ asmLoads = 0
    /\ \E c \in Callers : polls[c] >= 1
    /\ \A c \in Callers : promise[c] = "resolved" /\ value[c] = HashResult

\* C4 (as stated): once the wasm fetch or the glue-script load has failed,
\* every pending primary call is eventually rejected.
C4_AllWaitersRejected ==
    \A c \in Callers :
        (promise[c] = "pending" /\ ~UseFallback(params[c]) /\ LoadFailed)
            ~> (promise[c] = "rejected")

\* the step settles the fallback chain of a call whose calcHash ended with
\* the result object v
SettlesChainOf(c, v) ==
    /\ cpu = NoCaller
    /\ jobs # <<>>
    /\ Head(jobs) \in {Job(c, "catch", st, v) : st \in {"fulfilled", "rejected"}}
    /\ jobs' = Tail(jobs)

\* the step ends calcHash on the fallback chain and hands its outcome to the
\* catch-reaction of call c
HandsToChain(c, state, v) ==
    /\ Len(jobs') = Len(jobs) + 1
    /\ jobs'[Len(jobs')] = Job(c, "catch", state, v)

\* C5 (as stated): when calcHash has ended for a call whose engine status is
\* non-zero, the call's promise is rejected with an object carrying that
\* status as code and a non-empty message: at the end of calcHash in postRun
\* and in the 10 ms timer, by the chain's last reaction on the fallback path.
C5_NonZeroStatusRejects ==
    [][/\ (cpu # NoCaller /\ calc.phase = "end" /\ calc.res > 0
               /\ calc.ctx # "fallback")
            => /\ promise'[cpu] = "rejected"
               /\ value'[cpu].code = calc.res
               /\ value'[cpu].message \notin {"", "undefined"}
       /\ \A c \in Callers : \A v \in {ErrorObject(e, 1) : e \in {"message", "", "undefined"}} :
            SettlesChainOf(c, v)
                => /\ promise'[c] = "rejected"
                   /\ value'[c].code = v.code
                   /\ value'[c].message \notin {"", "undefined"}]_vars

\* C6 (as stated): after the wasm fetch or the glue-script load has failed
\* the loader stays failed: no step sends another XHR or loads the glue
\* script again, and the engine is never flagged ready.
C6_FailedIsAbsorbing ==
    /\ [](LoadFailed => ~globalModuleIsFullyLoaded)
    /\ [][LoadFailed => /\ LoadFailed'
                        /\ xhrSends' = xhrSends
                        /\ glueLoads' = glueLoads
                        /\ ~globalModuleIsFullyLoaded']_vars

\* C6, the part the code keeps: after a failed load no step sends another XHR
\* or loads the glue script again, and as long as no call has loaded the
\* fallback script the engine is not flagged ready.
C6_NoReloadAfterFailure ==
    /\ []((LoadFailed /\ asmLoads = 0) => ~globalModuleIsFullyLoaded)
    /\ [][LoadFailed => /\ LoadFailed'
                        /\ xhrSends' = xhrSends
                        /\ glueLoads' = glueLoads]_vars

\* C6 witness: the load has failed, and a call issued after the failure has
\* run argon2Hash and been deferred, with still one fetch.
C6_Witness ==
    /\ LoadFailed
    /\ xhrSends = 1
    /\ \E c \in Callers :
        issuedAfter[c] = "loadFailure" /\ pc[c] = "polling" /\ polls[c] >= 1

\* C7 (as stated): the fallback script asmFileUrl is loaded at most once.
C7_AsmLoadedAtMostOnce == asmLoads <= 1

\* C8 (as stated): every call runs on the backend kind chosen for the first
\* call, so at most one backend kind is ever taken.
C8_OneBackendKind == Cardinality(backends) <= 1

\* C9 (as stated): after a calcHash call has returned or thrown, each of its
\* four buffers has been freed exactly once and none is outstanding.
C9_BuffersFreedOnce ==
    \A c \in Callers :
        (pc[c] \in {"done", "crashed"} /\ invocations[c] = 1)
            => \A b \in Buffers : freeCount[c][b] = 1 /\ <<c, b>> \notin heap

\* C10, frame part: while calcHash runs for a failing call on a ready engine,
\* no step changes the loader state or loads a script.
C10_Frame ==
    [][(cpu # NoCaller /\ globalModuleIsFullyLoaded /\ params[cpu].eng # 0)
        => UNCHANGED <<loaderVars, asmLoads>>]_vars

\* C10, second part: a primary call with engine status 0 issued after such a
\* failure eventually resolves.
C10_NextCallResolves ==
    \A c \in Callers :
        (/\ issuedAfter[c] = "computeFailure"
         /\ promise[c] = "pending"
         /\ ~UseFallback(params[c])
         /\ params[c].eng = 0) ~> (promise[c] = "resolved")

\* C10 as stated: a hash() call that fails in the computation on a ready
\* engine leaves the loader state unchanged, and a later call with valid
\* params resolves.
C10_FailureLeavesLoaderIntact == C10_Frame /\ C10_NextCallResolves

\* C10, second part up to the exceptions calcHash lets escape: on an engine
\* whose glue script has executed, such a later call eventually resolves or
\* has its calcHash ended by an exception of an allocation or of the decoding
\* of the result.
C10_NextCallResolvesUnlessRaised ==
    \A c \in Callers :
        (/\ issuedAfter[c] = "computeFailure"
         /\ promise[c] = "pending"
         /\ ~UseFallback(params[c])
         /\ params[c].eng = 0
         /\ glue = "executed") ~> (promise[c] = "resolved" \/ pc[c] = "crashed")

\* C10 witness: a computation failed on the ready engine, and a call issued
\* after it resolved with a hash on the same engine, with nothing re-fetched.
C10_Witness ==
    /\ computeFailed
    /\ globalModuleIsFullyLoaded
    /\ xhrSends = 1
    /\ glueLoads = 1
    /\ \E c \in Callers :
        /\ issuedAfter[c] = "computeFailure"
        /\ promise[c] = "resolved"
        /\ value[c] = HashResult

\* C11: an argon2Hash run takes the fallback backend exactly when WebAssembly
\* is missing from the host or wasmFileUrl is absent or argon2FileUrl is
\* absent, and the primary backend for every other combination.
C11_BackendSelection ==
    selected.backend # "none" =>
        /\ selected.backend \in {"fallback", "primary"}
        /\ selected.backend = "fallback" <=>
               (~WebAssembly \/ ~selected.wasmFileUrl \/ ~selected.argon2FileUrl)

\* with WebAssembly present, a call lacking only argon2FileUrl went to the
\* fallback script
C11_Witness ==
    /\ WebAssembly
    /\ selected.wasmFileUrl /\ ~selected.argon2FileUrl
    /\ selected.backend = "fallback"
    /\ \E c \in Callers : pc[c] = "asmLoading"

\* C12 as stated: for every requested memory cost mem >= 8 KiB the initial
\* engine memory, in 64 KiB pages, is at most the maximum passed to
\* WebAssembly.Memory and at least 256 pages above the working set of
\* ceil(mem * 1024 / 65536) pages.
C12_CeilingAndMargin ==
    LET m == selected.memory
        ws == WorkingSet(m.mem)
    IN  m.mem >= 8 =>
            /\ ws * 64 >= m.mem /\ (ws - 1) * 64 < m.mem
            /\ m.initial <= m.maximum
            /\ m.initial >= ws + 256

\* C12, amended: the initial engine memory never exceeds the maximum passed
\* to WebAssembly.Memory; it is at least 256 pages above the working set of
\* ceil(mem * 1024 / 65536) pages whenever working set plus 256 pages fits
\* under that maximum, and it equals the maximum otherwise.
C12_ClampedSizing ==
    LET m == selected.memory
        ws == WorkingSet(m.mem)
    IN  m.mem >= 8 =>
            /\ ws * 64 >= m.mem /\ (ws - 1) * 64 < m.mem
            /\ m.initial <= m.maximum
            /\ ws + 256 <= m.maximum => m.initial >= ws + 256
            /\ ws + 256 > m.maximum => m.initial = m.maximum

\* a load was started for a memory cost whose working set plus 256 pages
\* does not fit: the memory was created at the maximum of 32767 pages
C12_Witness ==
    /\ Module.defined
    /\ xhr = "sent"
    /\ selected.backend = "primary"
    /\ selected.memory.mem = 2080705
    /\ selected.memory.initial = 32767
    /\ selected.memory.maximum = 32767

\* C13: the initialization phases are ordered: the glue script is requested
\* only once the wasm binary has arrived, postRun fires only after the glue
\* script was requested, and the ready flag is set only after postRun has
\* fired, hence never before the fetch completed.
C13_PhaseOrder ==
    /\ (glueLoads >= 1 \/ glue # "none") => xhr = "loaded"
    /\ postRunFired => glueLoads >= 1
    /\ globalModuleIsFullyLoaded => (postRunFired /\ xhr = "loaded")

\* the whole sequence has run: binary fetched, glue executed, postRun fired,
\* engine flagged ready
C13_Witness ==
    /\ xhr = "loaded"
    /\ glue = "executed"
    /\ postRunFired
    /\ globalModuleIsFullyLoaded
    /\ Module.wasmBinary

\* C14: once the engine is flagged ready, no step clears the flag or
\* replaces the backend object, whatever calls follow; and the
\* flag is only ever set by the postRun callback installed by the call that
\* started the load.
C14_ReadyIsStable ==
    [][/\ globalModuleIsFullyLoaded =>
            /\ globalModuleIsFullyLoaded'
            /\ Module' = Module
       /\ (~globalModuleIsFullyLoaded /\ globalModuleIsFullyLoaded') =>
            /\ ~postRunFired /\ postRunFired'
            /\ Module.postRun = xhrOwner
            /\ cpu' = xhrOwner]_vars

\* on a ready engine a later call has failed in calcHash and both backends
\* have been used, and the flag is still set
C14_Witness ==
    /\ globalModuleIsFullyLoaded
    /\ computeFailed
    /\ backends = {"primary", "fallback"}
    /\ \E c \in Callers : c # xhrOwner /\ pc[c] = "done" /\ invocations[c] = 1

\* C15: when calcHash ends it returns normally only with status 0, nothing
\* thrown and the success object, and with any other status it throws, also
\* when the error-message lookup threw or gave the empty string.
C15_StatusDecidesOutcome ==
    (cpu # NoCaller /\ calc.phase = "end") =>
        /\ ~Raises => (calc.res = 0 /\ calc.err = "undefined"
                         /\ calc.result = HashResult)
        /\ (calc.res # 0 /\ calc.res # Undefined) => Raises

\* C16: at every moment at most one call has live allocations in the
\* engine's arena, so the buffers of different calls never coexist.
C16_OneCallHoldsBuffers ==
    Cardinality({c \in Callers : \E b \in Buffers : <<c, b>> \in heap}) <= 1

\* C17: releasing the buffers, with or without a throwing _free, leaves
\* calcHash's outcome as it was: the same result object and the same err, so
\* a call that computed a result still returns it (to resolve, which settles
\* the pending promise with it and leaves a promise settled before as it
\* is) and a call that failed still throws its own error object.
C17_FreeFailureKeepsOutcome ==
    [][/\ (cpu # NoCaller /\ calc.phase = "free") =>
            /\ calc'.result = calc.result
            /\ calc'.err = calc.err
       /\ (cpu # NoCaller /\ calc.phase = "end") =>
            IF calc.res = 0 /\ calc.err = "undefined" /\ ~calc.raised
            THEN /\ ~Raises
                 /\ calc.result = HashResult
                 /\ IF calc.ctx = "fallback"
                    THEN HandsToChain(cpu, "fulfilled", HashResult)
                    ELSE IF promise[cpu] = "pending"
                         THEN promise'[cpu] = "resolved" /\ value'[cpu] = HashResult
                         ELSE promise'[cpu] = promise[cpu] /\ value'[cpu] = value[cpu]
            ELSE Throws(calc.err) =>
                    /\ promise'[cpu] # "resolved"
                    /\ calc.result = ErrorObject(calc.err, calc.res)
                    /\ calc.ctx = "fallback" =>
                            HandsToChain(cpu, "rejected", calc.result)
       /\ \A c \in Callers :
            /\ SettlesChainOf(c, HashResult) =>
                    (promise'[c] = "resolved" /\ value'[c] = HashResult)
            /\ (\E e \in {"exception", "message"}, r \in {Undefined, 1} :
                    SettlesChainOf(c, ErrorObject(e, r))) => promise'[c] = "rejected"]_vars

\* a call whose _free threw (it still holds buffers) has resolved with the
\* success object
C17_Witness ==
    \E c \in Callers :
        /\ pc[c] = "done"
        /\ \E b \in Buffers : <<c, b>> \in heap
        /\ promise[c] = "resolved"
        /\ value[c] = HashResult

\* C18: a promise is resolved only by the end of that call's own calcHash,
\* which has invoked the engine exactly once, on that call's own params;
\* this also holds for a call that was deferred by the 10 ms re-check, which
\* never receives the result computed for the call that started the load.
C18_ResolvedByOwnComputation ==
    [][\A c \in Callers :
          /\ (promise[c] # "resolved" /\ promise'[c] = "resolved") =>
                \/ /\ cpu = c
                   /\ calc.phase = "end"
                   /\ calc.ctx # "fallback"
                   /\ invocations[c] = 1
                   /\ calc.res = IF params[c].eng = EngineThrows THEN Undefined
                                 ELSE params[c].eng
                   /\ value'[c] = calc.result
                \/ /\ SettlesChainOf(c, value'[c])
                   /\ Head(jobs).state = "fulfilled"
                   /\ invocations[c] = 1
          /\ (cpu = c /\ calc.phase = "end" /\ calc.ctx = "fallback" /\ ~Raises) =>
                /\ invocations[c] = 1
                /\ calc.res = IF params[c].eng = EngineThrows THEN Undefined
                              ELSE params[c].eng
                /\ HandsToChain(c, "fulfilled", calc.result)
          /\ \A d \in Callers :
                (jobs # <<>> /\ Head(jobs).caller = d /\ jobs' = Tail(jobs)
                    /\ d # c) => promise'[c] = promise[c]
          /\ promise'[c] = "resolved" => invocations'[c] = 1]_vars

\* a deferred call has resolved with the success object after one engine
\* invocation of its own, while the call that started the load, whose engine
\* call threw, has not resolved
C18_Witness ==
    \E c, d \in Callers :
        /\ c # d
        /\ d = xhrOwner
        /\ pc[d] = "done" /\ promise[d] = "pending" /\ invocations[d] = 1
        /\ polls[c] >= 1
        /\ promise[c] = "resolved" /\ value[c] = HashResult /\ invocations[c] = 1

\* C19: whenever a call on the fallback path is rejected, because the
\* fallback script failed to load or because calcHash threw after it
\* loaded, the reason is an Error whose message starts with
\* "Error loading argon2-asm.min.js: " and which has no code field.
C19_FallbackRejectionShape ==
    [][\A c \in Callers :
          (/\ promise[c] # "rejected"
           /\ promise'[c] = "rejected"
           /\ pc[c] \in {"asmLoading", "chained", "computing"}
           /\ cpu = c => calc.ctx = "fallback") =>
                /\ value'[c].type = "Error"
                /\ value'[c].message = "Error loading argon2-asm.min.js: "
                /\ value'[c].code = Undefined]_vars

\* both causes have happened: one fallback call was rejected without
\* reaching the engine, another after its engine call failed
C19_Witness ==
    \E c, d \in Callers :
        /\ promise[c] = "rejected" /\ value[c].type = "Error" /\ invocations[c] = 0
        /\ promise[d] = "rejected" /\ value[d].type = "Error" /\ invocations[d] = 1
        /\ backends = {"fallback"}

====
